---- MODULE Spec2Model ----
(***************************************************************************)
(* Model of owensd/vscode-lldb: the Tool Locator (src/toolpath.ts), the    *)
(* Debugger proxy with its idle-timer output framing (lib/src/lldb/lldb.ts *)
(* in its second revision) and the debug-adapter session with its          *)
(* LLDBDebugger subprocess adapter (src/main.ts and its early revision).   *)
(*                                                                         *)
(* Strings are sequences of one-character strings; bytes are integers.     *)
(***************************************************************************)
EXTENDS Integers, Sequences, FiniteSets, TLC

VARIABLES
    \* ---- process environment and filesystem (shared) ----
    envPATH,        \* process.env["PATH"]: Null when unset, else a string
    fsFiles,        \* the set of paths for which fs.existsSync is true
    \* ---- Tool Locator call ----
    toolname,       \* argument of the getToolPath call under way
    toolResult,     \* [pc, value] of the last getToolPath call
    \* ---- Debugger proxy (lib/src/lldb/lldb.ts) ----
    binaryPath,     \* Debugger._binaryPath
    attached,       \* Debugger._attached
    attachOutcome,  \* how the last attach() call ended: none, threw, promise
    calls,          \* one record per attach() call that reached the spawn:
                    \* the child, the closure variables timer and response,
                    \* and the promise handed to the caller
    \* ---- debug adapter (src/main.ts and its early revision) ----
    rev,            \* which revision of the adapter runs: "early" or "late"
    clientLinesStartAt1, \* the editor's line numbering, from its initialize
    breakpoints,    \* SwiftDebugSession.breakpoints: a map path -> list
    program,        \* SwiftDebugSession.program
    currentline,    \* SwiftDebugSession.currentline
    debugger,       \* LLDBDebugger.debugger: index into connects, 0 = null
    lldb,           \* LLDBDebugger.lldb: index into connects, 0 = undefined
    connects,       \* one record per connect() call: its promise, its child
    lastReq,        \* the request handled last
    out,            \* what the handler of lastReq sent to the editor, in order
    events,         \* OutputEvents forwarded from the subprocesses, in order
    evalPromise,    \* the promise of the last LLDBDebugger.evaluate() call
    threw           \* the handler of lastReq ended by an exception

toolVars == <<envPATH, fsFiles, toolname, toolResult>>
attachVars == <<binaryPath, attached, attachOutcome, calls>>
sessionState == <<breakpoints, program, currentline, debugger, lldb, connects>>
sessVars == <<rev, clientLinesStartAt1, sessionState, lastReq, out, events, evalPromise, threw>>

vars == <<toolVars, attachVars, sessVars>>

----------------------------------------------------------------------------
(* Values *)

\* JavaScript null / undefined, kept apart from every string of the model
\* (a string is a sequence of ONE-character strings).
Null == <<"null">>

\* path.delimiter and path.sep on the POSIX hosts the tool runs on
Delimiter == ":"
Sep == "/"

\* Longest PATH string the model enumerates
MaxPathLen == 3

PathChars == {"a", "b", Delimiter}

RECURSIVE StringsUpTo(_, _)
StringsUpTo(chars, n) ==
    IF n = 0 THEN {<<>>}
    ELSE LET shorter == StringsUpTo(chars, n - 1)
         IN  shorter \cup {Append(s, c) : s \in {t \in shorter : Len(t) = n - 1}, c \in chars}

ToolNames == {<<"l">>, <<"s">>}

\* lldb, the one tool name the adapter ever asks for
LldbName == <<"l">>

----------------------------------------------------------------------------
(* src/toolpath.ts *)

\* String.prototype.split(d): the pieces between occurrences of d, empty
\* pieces kept; "" splits into the one piece "".
RECURSIVE split(_, _)
split(s, d) ==
    IF \A i \in 1..Len(s) : s[i] # d THEN <<s>>
    ELSE LET k == CHOOSE i \in 1..Len(s) :
                      s[i] = d /\ \A j \in 1..(i - 1) : s[j] # d
         IN  <<SubSeq(s, 1, k - 1)>> \o split(SubSeq(s, k + 1, Len(s)), d)

\* path.join(dir, name) for a dir without separators and a plain file name:
\* empty segments are dropped, so join("", name) is name (relative to cwd).
join(dir, name) ==
    IF dir = <<>> THEN name
    ELSE IF name = <<>> THEN dir
    ELSE dir \o <<Sep>> \o name

existsSync(p) == p \in fsFiles

\* truthiness of process.env["PATH"]: undefined and "" are falsy
Truthy(s) == s # Null /\ s # <<>>

\* a scan that keeps looking after a hit and so returns the LAST match
RECURSIVE ScanPartsLast(_, _, _)
ScanPartsLast(parts, idx, name) ==
    IF idx > Len(parts) THEN Null
    ELSE LET toolpath == join(parts[idx], name)
             later == ScanPartsLast(parts, idx + 1, name)
         IN  IF later # Null THEN later
             ELSE IF existsSync(toolpath) THEN toolpath ELSE Null

\* the for..in loop over parts, from index idx on
RECURSIVE ScanParts(_, _, _)
ScanParts(parts, idx, name) ==
    IF idx > Len(parts) THEN Null
    ELSE LET toolpath == join(parts[idx], name)
         IN  IF existsSync(toolpath) THEN toolpath
             ELSE ScanParts(parts, idx + 1, name)

\* a lookup without the guard on process.env["PATH"]: (PATH || "").split(..)
getToolPathNoGuard(name) ==
    ScanParts(split(IF envPATH = Null THEN <<>> ELSE envPATH, Delimiter), 1, name)

getToolPath(name) ==
    IF Truthy(envPATH) THEN ScanParts(split(envPATH, Delimiter), 1, name)
    ELSE Null

----------------------------------------------------------------------------
(* Specification of the Tool Locator alone *)

FsCandidates == {<<"l">>, <<"a", Sep, "l">>, <<"b", Sep, "l">>, <<"a", Sep, "s">>}

EnvValues == {Null} \cup StringsUpTo(PathChars, MaxPathLen)

\* the Debugger proxy as constructed, before any attach()
AttachIdle ==
    /\ attached = FALSE
    /\ attachOutcome = "none"
    /\ calls = <<>>

NoRequest ==
    [command |-> "none", path |-> "", lines |-> <<>>, program |-> "",
     stopOnEntry |-> FALSE, expression |-> ""]

\* the adapter as constructed, before any request
SessionIdle ==
    /\ breakpoints = <<>>
    /\ program = Null
    /\ currentline = 0
    /\ debugger = 0
    /\ lldb = 0
    /\ connects = <<>>
    /\ lastReq = NoRequest
    /\ out = <<>>
    /\ events = <<>>
    /\ evalPromise = [state |-> "none", value |-> Null, delivered |-> <<>>]
    /\ threw = FALSE

InitTool ==
    /\ envPATH \in EnvValues
    /\ fsFiles \in SUBSET FsCandidates
    /\ toolname \in ToolNames
    /\ toolResult = [pc |-> "ready", value |-> Null]
    /\ binaryPath = "hello"
    /\ AttachIdle
    /\ rev = "late"
    /\ clientLinesStartAt1 = TRUE
    /\ SessionIdle

\* one call of getToolPath(toolname)
CallGetToolPath ==
    /\ toolResult.pc = "ready"
    /\ toolResult' = [pc |-> "returned", value |-> getToolPath(toolname)]
    /\ UNCHANGED <<envPATH, fsFiles, toolname, attachVars, sessVars>>

\* the caller picks the next tool name to look up (nothing is cached)
NextLookup ==
    /\ toolResult.pc = "returned"
    /\ \E n \in ToolNames : toolname' = n
    /\ toolResult' = [pc |-> "ready", value |-> Null]
    /\ UNCHANGED <<envPATH, fsFiles, attachVars, sessVars>>

NextTool == CallGetToolPath \/ NextLookup

SpecTool == InitTool /\ [][NextTool]_vars

----------------------------------------------------------------------------
(* lib/src/lldb/lldb.ts, second revision: the Debugger proxy *)

\* Most attach() calls one Debugger instance receives in the model
MaxAttach == 2

\* the quiet period of the output framing, in milliseconds
IdleWindow == 250

\* the clock of the model advances in steps of half an idle window
HalfWindow == IdleWindow \div 2

\* Binary paths handed to the constructor: a regular file, a name with no
\* file behind it and a symbolic link to nothing.
BinaryPaths == {"hello", "noexist", "dangling"}

\* fs.realpathSync: the canonical path, or the ENOENT it throws
ENOENT == "ENOENT"
realpathSync(p) ==
    CASE p = "hello" -> "/bin/hello"
      [] OTHER -> ENOENT

\* fs.existsSync on a canonical path
existsSyncBinary(full) == full \in {"/bin/hello"}

\* attach() with its two checks on the binary left out
binaryMissingUnchecked(p) == FALSE

\* attach() throws before the spawn: realpathSync throws, or the precondition
\* on existsSync(fullPath) fails
binaryMissing(p) ==
    LET fullPath == realpathSync(p)
    IN  fullPath = ENOENT \/ ~existsSyncBinary(fullPath)

\* The bytes the tool writes on start for a binary: a byte naming the binary
\* as it was passed on the command line and a two-byte UTF-8 character.
BannerBytes(p) == <<(IF p = "hello" THEN 104 ELSE 63), 195, 169>>

\* (bytes + ""): Buffer.toString(), a UTF-8 decode of one chunk on its own.
\* A lead byte whose continuation is not in the chunk, and a continuation
\* byte without its lead, each decode to U+FFFD.
IsLead(b) == b >= 194 /\ b <= 223
IsCont(b) == b >= 128 /\ b <= 191
Replacement == 65533
RECURSIVE toStr(_)
toStr(bytes) ==
    IF bytes = <<>> THEN <<>>
    ELSE LET b == Head(bytes)
             rest == Tail(bytes)
         IN  IF b < 128 THEN <<b>> \o toStr(rest)
             ELSE IF IsLead(b) /\ rest # <<>> /\ IsCont(Head(rest))
                  THEN <<(b - 192) * 64 + (Head(rest) - 128)>> \o toStr(Tail(rest))
             ELSE <<Replacement>> \o toStr(rest)

\* a data handler that keeps only the latest chunk: response = str
replaceChunk(response, bytes) == toStr(bytes)

\* let str = (bytes + ""); response += str
appendChunk(response, bytes) == response \o toStr(bytes)

NewPromise == [state |-> "pending", value |-> Null, delivered |-> <<>>]

\* The timeouts of one attach() call that are outstanding in the event loop
\* are a sequence of their ages in milliseconds, oldest first.

\* a data handler that arms a new timeout without cancelling the last one
clearTimeoutNoop(timers) == timers

\* clearTimeout(timer): cancels the timeout the handler armed last, if it is
\* still outstanding; a no-op on null and on a timeout that has fired
clearTimeout(timers) ==
    IF timers = <<>> THEN <<>> ELSE SubSeq(timers, 1, Len(timers) - 1)

\* timer = setTimeout(() => { resolve({ output: response }) }, 250)
setTimeout(timers) == Append(timers, 0)

\* a child 'exit' listener that rejects the promise of attach()
settleOnExitRejects(promise) ==
    IF promise.state = "pending"
    THEN [state |-> "rejected", value |-> "exit", delivered |-> promise.delivered]
    ELSE promise

\* attach() registers the stdout 'data' listener and no other: no 'exit',
\* 'close' or 'error' listener touches the promise when the child goes away
settleOnExit(promise) == promise

\* a resolve that acts like a plain callback: every call delivers again
resolveEveryTime(promise, v) ==
    [state |-> "fulfilled", value |-> v, delivered |-> Append(promise.delivered, v)]

\* resolve(v) of a promise: settles a pending promise and delivers v to the
\* caller's then-callback; a no-op on a settled promise
resolve(promise, v) ==
    IF promise.state = "pending"
    THEN [state |-> "fulfilled", value |-> v, delivered |-> Append(promise.delivered, v)]
    ELSE promise

\* new Promise((resolve, reject) => { spawn ... }): the state of one call when
\* attach() returns
NewCall(p) ==
    [ binary   |-> p,
      alive    |-> TRUE,
      toEmit   |-> BannerBytes(p),
      received |-> <<>>,        \* the chunks the data handler has seen
      response |-> <<>>,        \* let response = ""
      timerSet |-> FALSE,       \* timer != null
      timers   |-> <<>>,        \* the outstanding timeouts of the call
      elapsed  |-> 0,           \* milliseconds since the latest chunk
      firedAt  |-> 0,           \* number of chunks seen when the timer first fired
      fires    |-> 0,           \* number of timer firings
      promise  |-> NewPromise ]

\* attach()
Attach ==
    /\ Len(calls) < MaxAttach
    /\ IF attached
       THEN \* precondition(!this.isAttached, ...)
            /\ attachOutcome' = "threw"
            /\ UNCHANGED calls
       ELSE IF binaryMissing(binaryPath)
       THEN /\ attachOutcome' = "threw"
            /\ UNCHANGED calls
       ELSE /\ calls' = Append(calls, NewCall(binaryPath))
            /\ attachOutcome' = "promise"
    /\ UNCHANGED <<attached, binaryPath, toolVars, sessVars>>

\* lldb.stdout.on("data", ...) of call i, for a chunk of the next n bytes
StdoutData(i, n) ==
    LET c == calls[i]
        bytes == SubSeq(c.toEmit, 1, n)
    IN  /\ c.alive
        /\ n \in 1..Len(c.toEmit)
        /\ calls' = [calls EXCEPT ![i] =
                        [c EXCEPT !.toEmit = SubSeq(c.toEmit, n + 1, Len(c.toEmit)),
                                  !.received = Append(c.received, bytes),
                                  !.response = appendChunk(c.response, bytes),
                                  !.timerSet = TRUE,
                                  !.timers = setTimeout(clearTimeout(c.timers)),
                                  !.elapsed = 0]]
        /\ UNCHANGED <<attached, binaryPath, attachOutcome, toolVars, sessVars>>

\* a timeout of the call is outstanding
Armed(c) == c.timers # <<>>

\* a timeout is due once a full idle window has passed since it was armed
Due(age) == age >= IdleWindow

\* time passes: every outstanding timeout that is not yet due ages by half a
\* window, and so does the time since the latest chunk of its call
Tick ==
    /\ \E i \in 1..Len(calls) : \E k \in 1..Len(calls[i].timers) : ~Due(calls[i].timers[k])
    /\ calls' = [i \in 1..Len(calls) |->
                    LET c == calls[i]
                    IN  [c EXCEPT !.timers = [k \in 1..Len(c.timers) |->
                                                IF Due(c.timers[k]) THEN c.timers[k]
                                                ELSE c.timers[k] + HalfWindow],
                                  !.elapsed = IF Armed(c) /\ ~Due(c.elapsed)
                                              THEN c.elapsed + HalfWindow
                                              ELSE c.elapsed]]
    /\ UNCHANGED <<attached, binaryPath, attachOutcome, toolVars, sessVars>>

\* the setTimeout callback of call i runs: its oldest outstanding timeout
TimerFire(i) ==
    LET c == calls[i]
    IN  /\ Armed(c)
        /\ Due(Head(c.timers))
        /\ calls' = [calls EXCEPT ![i] =
                        [c EXCEPT !.timers = Tail(c.timers),
                                  !.firedAt = IF c.fires = 0 THEN Len(c.received)
                                              ELSE c.firedAt,
                                  !.fires = c.fires + 1,
                                  !.promise = resolve(c.promise, c.response)]]
        /\ UNCHANGED <<attached, binaryPath, attachOutcome, toolVars, sessVars>>

\* the tool process of call i exits, or the OS could not start it; nothing
\* more arrives on its stdout
ChildExit(i) ==
    /\ calls[i].alive
    /\ calls' = [calls EXCEPT ![i] =
                    [calls[i] EXCEPT !.alive = FALSE,
                                     !.promise = settleOnExit(calls[i].promise)]]
    /\ UNCHANGED <<attached, binaryPath, attachOutcome, toolVars, sessVars>>

InitAttach ==
    /\ envPATH = Null
    /\ fsFiles = {}
    /\ toolname = LldbName
    /\ toolResult = [pc |-> "ready", value |-> Null]
    /\ binaryPath \in BinaryPaths
    /\ AttachIdle
    /\ rev = "late"
    /\ clientLinesStartAt1 = TRUE
    /\ SessionIdle

NextAttach ==
    \/ Attach
    \/ \E i \in 1..Len(calls) : \E n \in 1..Len(calls[i].toEmit) : StdoutData(i, n)
    \/ Tick
    \/ \E i \in 1..Len(calls) : TimerFire(i)
    \/ \E i \in 1..Len(calls) : ChildExit(i)

SpecAttach == InitAttach /\ [][NextAttach]_vars

----------------------------------------------------------------------------
(* src/main.ts and its early revision: LLDBDebugger *)

\* Most connect() calls one LLDBDebugger instance receives in the model
MaxConnect == 2

\* What a subprocess writes to its stdout and stderr, chunk by chunk
ChildOutput == << <<111, 107>> >>

Programs == {"prog"}
Expressions == {"e"}

\* reject(v) of a promise: settles a pending promise, a no-op on a settled one
reject(promise, v) ==
    IF promise.state = "pending"
    THEN [state |-> "rejected", value |-> v, delivered |-> promise.delivered]
    ELSE promise

\* a connect() whose executor goes on after reject(): the return is missing
connectExecutorFallThrough(prog, toolpath, self) ==
    LET early == IF toolpath = Null
                 THEN reject(NewPromise, "Cannot find LLDB debugger.")
                 ELSE NewPromise
    IN  [ program |-> prog,
          status  |-> "running",
          toEmit  |-> ChildOutput,
          logged  |-> 0,
          stdin   |-> <<>>,
          promise |-> resolve(early, self) ]

\* The executor of the promise connect() creates, run to its end: the record
\* of the call, with the child it spawned (status "none": no spawn) and the
\* promise. self is the index the call gets in connects, which stands for the
\* ChildProcess handle; logged counts the console lines written for the child.
connectExecutor(prog, toolpath, self) ==
    IF toolpath = Null
    THEN \* return reject("Cannot find LLDB debugger.")
         [ program |-> prog,
           status  |-> "none",
           toEmit  |-> <<>>,
           logged  |-> 0,
           stdin   |-> <<>>,
           promise |-> reject(NewPromise, "Cannot find LLDB debugger.") ]
    ELSE \* spawn, register the four listeners, this.lldb = lldb, resolve(lldb)
         [ program |-> prog,
           status  |-> "running",
           toEmit  |-> ChildOutput,
           logged  |-> 0,
           stdin   |-> <<>>,
           promise |-> resolve(NewPromise, self) ]

Spawned(c) == c.status # "none"

\* the effect of connect(prog) on the LLDBDebugger fields
connect(prog) ==
    LET self == Len(connects) + 1
        c == connectExecutor(prog, getToolPath(LldbName), self)
    IN  /\ connects' = Append(connects, c)
        /\ debugger' = self
        /\ lldb' = IF Spawned(c) THEN self ELSE lldb

\* LLDBDebugger.connect(prog) called on its own
Connect(prog) ==
    /\ Len(connects) < MaxConnect
    /\ connect(prog)
    /\ UNCHANGED <<rev, clientLinesStartAt1, breakpoints, program, currentline,
                   lastReq, out, events, evalPromise, threw, toolVars, attachVars>>

\* new OutputEvent(str + "", 'stdout')
OutputEvent(text) ==
    [type |-> "event", name |-> "output", success |-> TRUE, code |-> 0,
     message |-> "", body |-> text]

\* lldb.stdout.on("data", ...) and lldb.stderr.on("data", ...) of child i:
\* console.log / console.error, then the OutputEvent (late revision only)
ChildData(i, stream) ==
    LET c == connects[i]
        str == toStr(Head(c.toEmit))
    IN  /\ c.status = "running"
        /\ c.toEmit # <<>>
        /\ connects' = [connects EXCEPT ![i] =
                           [c EXCEPT !.toEmit = Tail(c.toEmit),
                                     !.logged = c.logged + 1]]
        /\ events' = IF rev = "late" THEN Append(events, OutputEvent(str)) ELSE events
        /\ UNCHANGED <<rev, clientLinesStartAt1, breakpoints, program, currentline,
                       debugger, lldb, lastReq, out, evalPromise, threw, toolVars, attachVars>>

\* lldb.on("close", code => reject(code))
ChildClose(i) ==
    LET c == connects[i]
    IN  /\ c.status \in {"running", "failed"}
        /\ connects' = [connects EXCEPT ![i] =
                           [c EXCEPT !.status = "closed",
                                     !.logged = c.logged + 1,
                                     !.promise = reject(c.promise, "code")]]
        /\ UNCHANGED <<rev, clientLinesStartAt1, breakpoints, program, currentline,
                       debugger, lldb, lastReq, out, events, evalPromise, threw, toolVars, attachVars>>

\* lldb.on("error", err => reject(err)): the OS could not start the process
ChildError(i) ==
    LET c == connects[i]
    IN  /\ c.status = "running"
        /\ c.toEmit = ChildOutput
        /\ connects' = [connects EXCEPT ![i] =
                           [c EXCEPT !.status = "failed",
                                     !.toEmit = <<>>,
                                     !.logged = c.logged + 1,
                                     !.promise = reject(c.promise, "err")]]
        /\ events' = IF rev = "late" THEN Append(events, OutputEvent("err")) ELSE events
        /\ UNCHANGED <<rev, clientLinesStartAt1, breakpoints, program, currentline,
                       debugger, lldb, lastReq, out, evalPromise, threw, toolVars, attachVars>>

\* Most lines written to one subprocess's stdin in the model
MaxWrites == 1

\* LLDBDebugger.evaluate(expression), late revision: write the line to the
\* stdin of this.lldb and resolve(true). With this.lldb undefined the write
\* throws inside the executor, which rejects the promise.
Evaluate(expression) ==
    /\ rev = "late"
    /\ IF lldb = 0
       THEN /\ evalPromise' = reject(NewPromise, "TypeError")
            /\ UNCHANGED connects
       ELSE /\ Len(connects[lldb].stdin) < MaxWrites
            /\ connects' = [connects EXCEPT ![lldb].stdin =
                                Append(@, <<expression, "\n">>)]
            /\ evalPromise' = resolve(NewPromise, TRUE)
    /\ UNCHANGED <<rev, clientLinesStartAt1, breakpoints, program, currentline,
                   debugger, lldb, lastReq, out, events, threw, toolVars, attachVars>>

ChildStep ==
    \E i \in 1..Len(connects) :
        \/ ChildData(i, "stdout")
        \/ ChildData(i, "stderr")
        \/ ChildClose(i)
        \/ ChildError(i)

\* the environments the adapter is started in: lldb on the PATH, behind
\* another directory, and lldb on disk but PATH unset
InitEnv ==
    /\ envPATH \in {Null, <<"b", Delimiter, "a">>}
    /\ fsFiles = {<<"a", Sep, "l">>}
    /\ toolname = LldbName
    /\ toolResult = [pc |-> "ready", value |-> Null]

InitConnect ==
    /\ InitEnv
    /\ binaryPath = "hello"
    /\ AttachIdle
    /\ rev \in {"early", "late"}
    /\ clientLinesStartAt1 = TRUE
    /\ SessionIdle

NextConnect ==
    \/ \E prog \in Programs : Connect(prog)
    \/ \E expression \in Expressions : Evaluate(expression)
    \/ ChildStep

SpecConnect == InitConnect /\ [][NextConnect]_vars

----------------------------------------------------------------------------
(* src/main.ts and its early revision: SwiftDebugSession *)

\* Most lines one set-breakpoints request names in the model
MaxLines == 2

\* Source files of the editor: their text, or Null where readFileSync throws
SourcePaths == {"f1", "f2", "gone"}
readFileSync(path) ==
    CASE path = "f1" -> <<"x", "\n", "y">>
      [] path = "f2" -> <<>>
      [] OTHER -> Null

\* the line numbers an editor can send: its first line and the one after
FirstClientLine == IF clientLinesStartAt1 THEN 1 ELSE 0
ClientLines == {FirstClientLine, FirstClientLine + 1}

RECURSIVE SeqsUpTo(_, _)
SeqsUpTo(S, n) ==
    IF n = 0 THEN {<<>>}
    ELSE LET shorter == SeqsUpTo(S, n - 1)
         IN  shorter \cup {Append(q, x) : q \in {t \in shorter : Len(t) = n - 1}, x \in S}

\* DebugSession of the debug-adapter base class, constructed by run() with
\* debuggerLinesStartAt1 = false
convertClientLineToDebugger(line) == IF clientLinesStartAt1 THEN line - 1 ELSE line
convertDebuggerLineToClient(line) == IF clientLinesStartAt1 THEN line + 1 ELSE line

Response(req, body) ==
    [type |-> "response", name |-> req.command, success |-> TRUE, code |-> 0,
     message |-> "", body |-> body]
ErrorResponse(req, code, message) ==
    [type |-> "response", name |-> req.command, success |-> FALSE, code |-> code,
     message |-> message, body |-> <<>>]
Event(name, body) ==
    [type |-> "event", name |-> name, success |-> TRUE, code |-> 0,
     message |-> "", body |-> body]

\* this.sendResponse(response), this.sendErrorResponse(response, code, message)
\* and this.sendEvent(event), as the messages they put on the wire
sendResponse(req, body) == <<Response(req, body)>>
sendErrorResponse(req, code, message) == <<ErrorResponse(req, code, message)>>
sendEvent(name, body) == <<Event(name, body)>>

MAIN_THREAD_ID == 0

Request(command) == [NoRequest EXCEPT !.command = command]

\* a handler that touches no field of the session and sends msgs
Answer(req, msgs) ==
    /\ lastReq' = req
    /\ out' = msgs
    /\ threw' = FALSE
    /\ UNCHANGED <<rev, clientLinesStartAt1, sessionState, events, evalPromise,
                   toolVars, attachVars>>

initializeRequest ==
    LET req == Request("initialize")
    IN  Answer(req, sendResponse(req, <<>>) \o sendEvent("initialized", <<>>))

continueMsgs(req) ==
    IF rev = "late" THEN sendResponse(req, <<>>)
    ELSE sendErrorResponse(req, 2000, "Continue is not yet supported")

launchRequest(prog, stopOnEntry) ==
    LET req == [NoRequest EXCEPT !.command = "launch", !.program = prog,
                                 !.stopOnEntry = stopOnEntry]
    IN  /\ lastReq' = req
        /\ threw' = FALSE
        /\ IF rev = "late"
           THEN /\ program' = prog
                /\ IF stopOnEntry
                   THEN /\ currentline' = 0
                        /\ out' = sendResponse(req, <<>>)
                                    \o sendEvent("stopped", <<"entry", MAIN_THREAD_ID>>)
                   ELSE \* this.continueRequest(response, ...)
                        /\ out' = continueMsgs(req)
                        /\ UNCHANGED currentline
                /\ UNCHANGED <<debugger, lldb, connects>>
           ELSE /\ Len(connects) < MaxConnect
                /\ connect(prog)
                /\ out' = sendResponse(req, <<>>)
                /\ UNCHANGED <<program, currentline>>
        /\ UNCHANGED <<rev, clientLinesStartAt1, breakpoints, events, evalPromise,
                       toolVars, attachVars>>

disconnectRequest ==
    LET req == Request("disconnect")
    IN  Answer(req, IF rev = "late"
                    THEN sendResponse(req, <<>>) \o sendEvent("terminated", <<>>)
                    ELSE sendErrorResponse(req, 2000, "Disconnect is not yet supported"))

setExceptionBreakPointsRequest ==
    LET req == Request("setExceptionBreakpoints")
    IN  Answer(req, IF rev = "late"
                    THEN sendErrorResponse(req, 101,
                            "Setting a breakpoint on exceptions is not yet supported.")
                    ELSE sendResponse(req, <<>>))

\* Map.prototype.set
mapSet(m, k, v) == [x \in (DOMAIN m) \cup {k} |-> IF x = k THEN v ELSE m[x]]

\* if (!this.breakpoints.get(path)) this.breakpoints.set(path, [])
ensureEntry(m, path) == IF path \in DOMAIN m THEN m ELSE mapSet(m, path, <<>>)

\* a bounds check that lets the index one past the last line through
verifiedLineInclusive(l, lines) == l <= Len(lines)

\* var verified = false; if (l < lines.length) verified = true
verifiedLine(l, lines) == l < Len(lines)

\* the loop over clientLines: one breakpoint per requested line, in order
verifyBreakpoints(clientLines, lines) ==
    [i \in 1..Len(clientLines) |->
        LET l == convertClientLineToDebugger(clientLines[i])
        IN  [verified |-> verifiedLine(l, lines),
             line |-> convertDebuggerLineToClient(l)]]

setBreakPointsRequest(path, clientLines) ==
    LET req == [NoRequest EXCEPT !.command = "setBreakpoints", !.path = path,
                                 !.lines = clientLines]
        ensured == ensureEntry(breakpoints, path)
        text == readFileSync(path)
    IN  /\ lastReq' = req
        /\ IF rev = "early"
           THEN \* removeAllBreakpoints() never settles: its then() never runs
                /\ breakpoints' = ensured
                /\ out' = <<>>
                /\ threw' = FALSE
           ELSE IF text = Null
           THEN \* readFileSync throws after the entry was created
                /\ breakpoints' = ensured
                /\ out' = <<>>
                /\ threw' = TRUE
           ELSE LET bps == verifyBreakpoints(clientLines, split(text, "\n"))
                IN  /\ breakpoints' = mapSet(ensured, path, bps)
                    /\ out' = sendResponse(req, bps)
                    /\ threw' = FALSE
        /\ UNCHANGED <<rev, clientLinesStartAt1, program, currentline, debugger, lldb,
                       connects, events, evalPromise, toolVars, attachVars>>

threadsRequest ==
    LET req == Request("threads")
    IN  Answer(req, IF rev = "late"
                    THEN sendResponse(req, <<<<MAIN_THREAD_ID, "thread 0">>>>)
                    ELSE sendErrorResponse(req, 2000, "Threads is not yet supported"))

stackTraceRequest ==
    LET req == Request("stackTrace")
    IN  Answer(req, IF rev = "late" THEN sendResponse(req, <<>>)
                    ELSE sendErrorResponse(req, 2000, "Stack Trace is not yet supported"))

scopesRequest ==
    LET req == Request("scopes")
    IN  Answer(req, IF rev = "late" THEN sendResponse(req, <<>>)
                    ELSE sendErrorResponse(req, 2000, "Scopes is not yet supported"))

variablesRequest ==
    LET req == Request("variables")
    IN  Answer(req, IF rev = "late" THEN sendResponse(req, <<>>)
                    ELSE sendErrorResponse(req, 2000, "Variables is not yet supported"))

continueRequest ==
    LET req == Request("continue")
    IN  Answer(req, continueMsgs(req))

nextRequest ==
    LET req == Request("next")
    IN  Answer(req, IF rev = "late"
                    THEN sendErrorResponse(req, 104, "Next is not supported.")
                    ELSE sendErrorResponse(req, 2000, "Next is not yet supported"))

stepInRequest ==
    LET req == Request("stepIn")
    IN  Answer(req, IF rev = "late"
                    THEN sendErrorResponse(req, 102, "Step In is not yet supported")
                    ELSE sendErrorResponse(req, 2000, "Step In is not yet supported"))

stepOutRequest ==
    LET req == Request("stepOut")
    IN  Answer(req, IF rev = "late"
                    THEN sendErrorResponse(req, 103, "Step out is not yet supported")
                    ELSE sendErrorResponse(req, 2000, "Step out is not yet supported"))

\* a pause handler that pushes its event before it answers
pauseRequestEventFirst ==
    LET req == Request("pause")
    IN  Answer(req, IF rev = "late"
                    THEN sendEvent("stopped", <<"pause", MAIN_THREAD_ID>>)
                           \o sendResponse(req, <<>>)
                    ELSE sendErrorResponse(req, 2000, "Pause is not yet supported"))

pauseRequest ==
    LET req == Request("pause")
    IN  Answer(req, IF rev = "late"
                    THEN sendResponse(req, <<>>)
                           \o sendEvent("stopped", <<"pause", MAIN_THREAD_ID>>)
                    ELSE sendErrorResponse(req, 2000, "Pause is not yet supported"))

evaluateRequest(expression) ==
    LET req == [NoRequest EXCEPT !.command = "evaluate", !.expression = expression]
    IN  Answer(req, IF rev = "late"
                    THEN sendResponse(req, <<"evaluate(", expression, ")">>)
                    ELSE sendErrorResponse(req, 2000, "Evaluate is not yet supported"))

Init ==
    /\ InitEnv
    /\ binaryPath = "hello"
    /\ AttachIdle
    /\ rev \in {"early", "late"}
    /\ clientLinesStartAt1 \in BOOLEAN
    /\ SessionIdle

Next ==
    \/ initializeRequest
    \/ \E prog \in Programs, stopOnEntry \in BOOLEAN : launchRequest(prog, stopOnEntry)
    \/ disconnectRequest
    \/ setExceptionBreakPointsRequest
    \/ \E path \in SourcePaths, clientLines \in SeqsUpTo(ClientLines, MaxLines) :
           setBreakPointsRequest(path, clientLines)
    \/ threadsRequest
    \/ stackTraceRequest
    \/ scopesRequest
    \/ variablesRequest
    \/ continueRequest
    \/ nextRequest
    \/ stepInRequest
    \/ stepOutRequest
    \/ pauseRequest
    \/ \E expression \in Expressions : evaluateRequest(expression)
    \/ ChildStep

Spec == Init /\ [][Next]_vars

----------------------------------------------------------------------------
(* Properties of the Debugger proxy *)

\* the text of a run of chunks: each chunk decoded on its own, in order
RECURSIVE ConcatStr(_)
ConcatStr(chunks) ==
    IF chunks = <<>> THEN <<>> ELSE toStr(Head(chunks)) \o ConcatStr(Tail(chunks))

RECURSIVE ConcatBytes(_)
ConcatBytes(chunks) ==
    IF chunks = <<>> THEN <<>> ELSE Head(chunks) \o ConcatBytes(Tail(chunks))

Fulfilled(i) == calls[i].promise.state = "fulfilled"

\* C1: attach() on a binary path with no file behind it throws before any
\* subprocess is spawned: no spawn ever happens and no promise is returned.
C1_NoSpawnForMissingBinary ==
    binaryPath \in {"noexist", "dangling"} =>
        calls = <<>> /\ attachOutcome # "promise"

\* C1 witness: attach() was called on a nonexistent path and threw.
C1_Witness ==
    binaryPath = "noexist" /\ attachOutcome = "threw" /\ calls = <<>>

C3_ResolvedOnceWithTextSoFar ==
    [][\A i \in 1..Len(calls) :
          /\ (~Fulfilled(i) /\ calls'[i].promise.state = "fulfilled")
                => /\ Armed(calls[i]) /\ calls[i].elapsed >= IdleWindow
                   /\ calls'[i].promise.value = ConcatStr(calls[i].received)
                   /\ calls'[i].promise.delivered = <<ConcatStr(calls[i].received)>>
          /\ Fulfilled(i) => calls'[i].promise = calls[i].promise]_vars

\* C3 witness: a chunk arrived after the resolution and its timer fired too,
\* and the caller still holds the one value delivered first.
C3_Witness ==
    \E i \in 1..Len(calls) :
        /\ Fulfilled(i)
        /\ calls[i].fires >= 2
        /\ Len(calls[i].received) > calls[i].firedAt
        /\ calls[i].promise.delivered = <<calls[i].promise.value>>

Pending(i) == calls[i].promise.state = "pending"

\* the data handler of call i ran in this step
ChunkArrived(i) == Len(calls'[i].received) > Len(calls[i].received)

\* C14: in the framing loop of attach at most one idle timer is outstanding at
\* every instant: each chunk cancels the outstanding timer, appends its text
\* to the buffer and arms one new timer, and no timer fires, and the promise
\* is not resolved, while less than a full idle window has passed since the
\* most recent chunk.
C14_OneTimerFullWindow ==
    /\ [](\A i \in 1..Len(calls) : Len(calls[i].timers) <= 1)
    /\ [][\A i \in 1..Len(calls) :
            /\ ChunkArrived(i)
                 => /\ calls'[i].timers = <<0>>
                    /\ calls'[i].response =
                         calls[i].response
                           \o toStr(calls'[i].received[Len(calls'[i].received)])
            /\ (calls'[i].fires > calls[i].fires
                   \/ (Pending(i) /\ calls'[i].promise.state # "pending"))
                 => calls[i].elapsed >= 250]_vars

\* C14 witness: a second chunk came while the timer of the first was
\* outstanding, so that timer never fired; the one firing there was came a
\* full window after the second chunk and resolved the promise.
C14_Witness ==
    \E i \in 1..Len(calls) :
        /\ Len(calls[i].received) = 2
        /\ calls[i].fires = 1
        /\ calls[i].firedAt = 2
        /\ calls[i].timers = <<>>
        /\ calls[i].elapsed >= 250
        /\ Fulfilled(i)

\* C15 as claimed: once the idle timer has fired and resolved the promise, no
\* chunk is appended to the buffer of that call any more and no idle timer is
\* armed for it again.
C15_NothingAfterResolution ==
    [][\A i \in 1..Len(calls) :
          Fulfilled(i) => /\ calls'[i].response = calls[i].response
                          /\ ~Armed(calls'[i])]_vars

\* C16 as claimed: when the subprocess has exited while the promise of its
\* attach() was pending, the promise is never resolved and never rejected
\* afterwards.
C16_ExitAbandonsPending ==
    [][\A i \in 1..Len(calls) :
          (~calls[i].alive /\ Pending(i)) => calls'[i].promise = calls[i].promise]_vars

\* C16 amended: the exit of the subprocess neither settles the promise of
\* attach() nor cancels its timer, and nothing rejects it. A promise pending
\* at the exit stays pending for good when no chunk had arrived; when one
\* had, the timer it armed is still outstanding, and the promise changes
\* only by that timer firing a full window after the last chunk, which
\* resolves it with the text received.
C16_ExitLeavesPromiseToTimer ==
    /\ [](\A i \in 1..Len(calls) :
            /\ calls[i].promise.state # "rejected"
            /\ (~calls[i].alive /\ calls[i].received = <<>>) => Pending(i)
            /\ (~calls[i].alive /\ calls[i].received # <<>> /\ Pending(i))
                 => Armed(calls[i]))
    /\ [][\A i \in 1..Len(calls) :
            /\ (calls[i].alive /\ ~calls'[i].alive)
                 => /\ calls'[i].promise = calls[i].promise
                    /\ calls'[i].timers = calls[i].timers
            /\ (~calls[i].alive /\ Pending(i))
                 => \/ calls'[i].promise = calls[i].promise
                    \/ /\ Armed(calls[i])
                       /\ calls[i].elapsed >= 250
                       /\ calls'[i].promise.state = "fulfilled"
                       /\ calls'[i].promise.value = ConcatStr(calls[i].received)]_vars

\* C16 witness: a subprocess exited before it wrote anything and the promise
\* of its attach() is pending with no timer outstanding, while the promise
\* of another attach(), whose subprocess exited after its first chunk, has
\* been resolved with that chunk.
C16_Witness ==
    \E i, j \in 1..Len(calls) :
        /\ ~calls[i].alive /\ calls[i].received = <<>>
        /\ Pending(i) /\ ~Armed(calls[i])
        /\ ~calls[j].alive /\ Len(calls[j].received) = 1 /\ calls[j].toEmit # <<>>
        /\ Fulfilled(j)
        /\ calls[j].promise.value = ConcatStr(calls[j].received)


----------------------------------------------------------------------------
(* Properties of the debug adapter *)

\* the number of lines an editor shows for a text: one more than its newlines
LineCount(text) == Cardinality({i \in 1..Len(text) : text[i] = "\n"}) + 1

\* the zero-based index the debugger uses for a line number of the editor
DebuggerIndex(line) == line - FirstClientLine

\* C6: the response to a set-breakpoints request lists one breakpoint per
\* requested line, in request order, and the i-th is verified exactly when the
\* zero-based debugger index of the i-th requested line is less than the
\* number of lines of the source file.
C6_VerifiedIffWithinFile ==
    (rev = "late" /\ lastReq.command = "setBreakpoints"
       /\ readFileSync(lastReq.path) # Null)
    => /\ Len(out) = 1
       /\ out[1].type = "response" /\ out[1].success
       /\ Len(out[1].body) = Len(lastReq.lines)
       /\ \A i \in 1..Len(lastReq.lines) :
             /\ out[1].body[i].line = lastReq.lines[i]
             /\ out[1].body[i].verified <=>
                  (DebuggerIndex(lastReq.lines[i]) < LineCount(readFileSync(lastReq.path)))

\* C6 witness: a response with a verified breakpoint followed by one past the
\* end of the file, which is not verified.
C6_Witness ==
    /\ lastReq.command = "setBreakpoints"
    /\ Len(out) = 1
    /\ Len(out[1].body) = 2
    /\ out[1].body[1].verified
    /\ ~out[1].body[2].verified

\* the request kinds without an implemented handler
Unimplemented ==
    {"setExceptionBreakpoints", "next", "stepIn", "stepOut"}
    \cup (IF rev = "early"
          THEN {"disconnect", "threads", "stackTrace", "scopes", "variables",
                "continue", "pause", "evaluate"}
          ELSE {})

\* C7 as claimed: every request kind without an implemented handler is
\* answered with one response flagged unsuccessful that carries a numeric
\* code and a non-empty message, and the session state stays as it was.
C7_UnimplementedAnsweredWithError ==
    /\ [](lastReq.command \in Unimplemented
            => /\ Len(out) = 1
               /\ out[1].type = "response"
               /\ ~out[1].success
               /\ out[1].code > 0
               /\ out[1].message # "")
    /\ [][(lastReq'.command \in Unimplemented /\ <<lastReq, out>>' # <<lastReq, out>>)
            => UNCHANGED sessionState]_vars

\* C8: connect() yields a rejected promise and neither spawns a subprocess nor
\* assigns this.lldb whenever the Tool Locator returns null for lldb.
C8_NoToolRejectsWithoutSpawn ==
    getToolPath(LldbName) = Null =>
        /\ lldb = 0
        /\ \A i \in 1..Len(connects) :
              /\ connects[i].promise.state = "rejected"
              /\ connects[i].status = "none"
        /\ debugger = Len(connects)

\* C8 witness: connect() was called with lldb not on the PATH and its promise
\* is rejected.
C8_Witness ==
    /\ getToolPath(LldbName) = Null
    /\ Len(connects) >= 1
    /\ connects[debugger].promise.state = "rejected"
    /\ lldb = 0

\* C9 as claimed: once the child has emitted 'error' or 'close', the promise
\* connect() returned is rejected.
C9_FailureRejectsConnect ==
    \A i \in 1..Len(connects) :
        connects[i].status \in {"failed", "closed"}
        => connects[i].promise.state = "rejected"

\* C10 as claimed: whatever the sequence of attach and connect calls on one
\* Debugger or one adapter, at most one subprocess spawned by it is alive.
C10_AtMostOneLiveProcess ==
    /\ Cardinality({i \in 1..Len(calls) : calls[i].alive}) <= 1
    /\ Cardinality({i \in 1..Len(connects) : connects[i].status = "running"}) <= 1

\* a request handler ran in this step
HandlerRan == <<lastReq, out, threw>>' # <<lastReq, out, threw>>

\* the responses among the messages a handler sent
Responses(msgs) == {k \in 1..Len(msgs) : msgs[k].type = "response"}

\* C11 as claimed: once a launch request is handled, the debugger tool has
\* been spawned for the program of that request or the launch was answered as
\* failed; and once a disconnect request is handled, no subprocess the
\* adapter spawned is running any more.
C11_LaunchSpawnsDisconnectTerminates ==
    /\ lastReq.command = "launch"
         => \/ \E i \in 1..Len(connects) :
                  connects[i].program = lastReq.program /\ Spawned(connects[i])
            \/ \E k \in Responses(out) : ~out[k].success
    /\ lastReq.command = "disconnect"
         => \A i \in 1..Len(connects) : connects[i].status # "running"

\* C12 as claimed: the handler of every set-breakpoints and of every evaluate
\* request that answers with success has, in the same run and before the
\* response, written one more line ending in a newline to the stdin of the
\* subprocess.
C12_CommandWrittenBeforeResponse ==
    [][(HandlerRan /\ lastReq'.command \in {"setBreakpoints", "evaluate"}
          /\ \E k \in Responses(out') : out'[k].success)
        => \E i \in 1..Len(connects) :
              LET before == connects[i].stdin
                  after == connects'[i].stdin
              IN  /\ Len(after) = Len(before) + 1
                  /\ SubSeq(after, 1, Len(before)) = before
                  /\ after[Len(after)][Len(after[Len(after)])] = "\n"]_vars

\* the data handler of the stdout or stderr of child i ran in this step
ChildChunkArrived(i) ==
    /\ connects[i].status = "running"
    /\ connects'[i].status = "running"
    /\ connects[i].toEmit # <<>>
    /\ connects'[i].toEmit = Tail(connects[i].toEmit)

\* the 'error' listener of child i ran in this step
ChildErrorArrived(i) ==
    connects[i].status = "running" /\ connects'[i].status = "failed"

\* C13 as claimed: every chunk that arrives on the stdout or stderr of a
\* subprocess is written to the console log and forwarded to the editor as
\* exactly one OutputEvent carrying the text of that chunk, appended after
\* the events of all earlier chunks; and no OutputEvent is emitted for
\* anything but an arriving chunk or a spawn error.
C13_EveryChunkLoggedAndForwarded ==
    [][/\ \A i \in 1..Len(connects) :
             ChildChunkArrived(i)
             => /\ connects'[i].logged = connects[i].logged + 1
                /\ events' = Append(events, OutputEvent(toStr(Head(connects[i].toEmit))))
       /\ events' # events
             => /\ Len(events') = Len(events) + 1
                /\ \E i \in 1..Len(connects) :
                      ChildChunkArrived(i) \/ ChildErrorArrived(i)]_vars

\* C17 as claimed: a set-breakpoints request for source path P leaves the
\* breakpoint map as it was except that the entry for P is the list built
\* from the lines of this request, one record per line in request order, and
\* it changes no other field of the session.
C17_ReplacesOnlyRecordOfPath ==
    [][(HandlerRan /\ rev = "late" /\ lastReq'.command = "setBreakpoints")
        => LET P == lastReq'.path
               lines == lastReq'.lines
           IN  /\ DOMAIN breakpoints' = (DOMAIN breakpoints) \cup {P}
               /\ \A q \in (DOMAIN breakpoints) \ {P} : breakpoints'[q] = breakpoints[q]
               /\ Len(breakpoints'[P]) = Len(lines)
               /\ \A k \in 1..Len(lines) : breakpoints'[P][k].line = lines[k]
               /\ UNCHANGED <<program, currentline, debugger, lldb, connects>>]_vars

\* C18 as claimed: every request whose handler has run to its end, of
\* whatever kind and in whatever state, has been answered with exactly one
\* response.
C18_ExactlyOneResponse ==
    (lastReq.command # NoRequest.command /\ ~threw)
    => Cardinality(Responses(out)) = 1

\* C19: whenever a handler pushes an event it has sent its response first:
\* initialize answers and then pushes initialized; in src/main.ts launch with
\* stopOnEntry answers and then pushes stopped("entry"), pause answers and
\* then pushes stopped("pause"), disconnect answers and then pushes
\* terminated; launch without stopOnEntry pushes no stopped event.
C19_ResponseBeforeEvent ==
    LET ResponseThen(name, body) ==
            /\ Len(out) = 2
            /\ out[1].type = "response" /\ out[1].name = lastReq.command
            /\ out[1].success
            /\ out[2].type = "event" /\ out[2].name = name /\ out[2].body = body
    IN  /\ \A k \in 1..Len(out) :
              out[k].type = "event" => \E j \in 1..(k - 1) : out[j].type = "response"
        /\ lastReq.command = "initialize" => ResponseThen("initialized", <<>>)
        /\ (lastReq.command = "launch" /\ ~lastReq.stopOnEntry)
              => \A k \in 1..Len(out) : out[k].name # "stopped"
        /\ rev = "late" =>
              /\ (lastReq.command = "launch" /\ lastReq.stopOnEntry)
                    => ResponseThen("stopped", <<"entry", MAIN_THREAD_ID>>)
              /\ lastReq.command = "pause"
                    => ResponseThen("stopped", <<"pause", MAIN_THREAD_ID>>)
              /\ lastReq.command = "disconnect" => ResponseThen("terminated", <<>>)

\* C19 witness: a launch with stopOnEntry was answered and the stopped event
\* for the entry followed the response.
C19_Witness ==
    /\ lastReq.command = "launch" /\ lastReq.stopOnEntry
    /\ Len(out) = 2
    /\ out[1].type = "response" /\ out[1].success
    /\ out[2].type = "event" /\ out[2].name = "stopped" /\ out[2].body[1] = "entry"

----------------------------------------------------------------------------
(* Properties of the Tool Locator *)

\* The search list the environment variable denotes, stated without the
\* code's split: directory k is the text between delimiter k-1 and delimiter
\* k. An unset or empty PATH denotes the empty list.
DelimPos == {i \in 1..Len(envPATH) : envPATH[i] = Delimiter}
NthDelim(k) ==
    IF k = 0 THEN 0
    ELSE IF k > Cardinality(DelimPos) THEN Len(envPATH) + 1
    ELSE CHOOSE p \in DelimPos : Cardinality({q \in DelimPos : q < p}) = k - 1
SearchListLen ==
    IF envPATH = Null \/ envPATH = <<>> THEN 0 ELSE Cardinality(DelimPos) + 1
SearchDir(k) == SubSeq(envPATH, NthDelim(k - 1) + 1, NthDelim(k) - 1)

\* directory k of the search list contains a file called name
DirHas(k, name) ==
    (IF SearchDir(k) = <<>> THEN name ELSE SearchDir(k) \o <<Sep>> \o name) \in fsFiles

\* C4: getToolPath(name) returns null and never throws whenever no directory
\* of the PATH search list contains a file called name, PATH unset or empty
\* included.
C4_AbsentWhenNoMatch ==
    /\ toolResult.pc \in {"ready", "returned"}
    /\ (toolResult.pc = "returned"
          /\ \A k \in 1..SearchListLen : ~DirHas(k, toolname))
        => toolResult.value = Null

\* C4 witness: a lookup returned null with PATH empty, although a file of
\* that name lies in the current directory.
C4_Witness ==
    /\ toolResult.pc = "returned"
    /\ toolResult.value = Null
    /\ toolname \in fsFiles
    /\ envPATH = <<>>

\* C5: when some directory of the search list contains a file called name,
\* getToolPath(name) returns the join of name with the first such directory
\* in list order, later matches notwithstanding.
C5_FirstMatchWins ==
    toolResult.pc = "returned" =>
        \A k \in 1..SearchListLen :
            (DirHas(k, toolname) /\ \A j \in 1..(k - 1) : ~DirHas(j, toolname))
            => toolResult.value =
                 (IF SearchDir(k) = <<>> THEN toolname
                  ELSE SearchDir(k) \o <<Sep>> \o toolname)

\* C5 witness: two different directories of the list both hold the tool and
\* the lookup returned the one from the first.
C5_Witness ==
    /\ toolResult.pc = "returned"
    /\ SearchListLen = 2
    /\ SearchDir(1) # SearchDir(2)
    /\ DirHas(1, toolname) /\ DirHas(2, toolname)
    /\ toolResult.value = SearchDir(1) \o <<Sep>> \o toolname

====
